---------------------------- MODULE Spec2Model ----------------------------
(***************************************************************************)
(* A model of kmers/kmers.py: the LazyDict container, the Composition      *)
(* k-mer model built on two LazyDicts, its write/read serialisation and    *)
(* the distance functions euclidean, kullback_leibler and ffp_distance.    *)
(*                                                                         *)
(* Python values are modelled as follows.                                  *)
(*   str            a sequence of one-character strings                    *)
(*   dict           a function whose DOMAIN is the key set                 *)
(*   int            an integer                                             *)
(*   float a/b      the reduced fraction <<n, d>> (true division of two    *)
(*                  small ints is correctly rounded, so two quotients are  *)
(*                  the same float exactly when the fractions are equal)   *)
(*   log10(c)-log10(t)   the record [log10 |-> c, minus_log10 |-> t]       *)
(*   an object      a record of its attributes                             *)
(*   a call         a record [self, val, exc]: the object after the call,  *)
(*                  the value returned and the exception raised ("None"    *)
(*                  when the call returned)                                *)
(***************************************************************************)
EXTENDS Integers, Sequences, FiniteSets, TLC

VARIABLES
    source,    \* the list the test's LazyDict closes over (test_kmers.py:9)
    ld,        \* the LazyDict of the tests (test_kmers.py:10)
    a,         \* a Composition
    b,         \* a second Composition (distances, reading a model back)
    fh,        \* the text stream write() writes and read() reads
    ingested,  \* what a has been fed so far: [count, chars, windows], the
               \* number of SeqRecords, their characters and, for each
               \* k-mer, the number of windows that hold it
    ret        \* the last call made: [op, arg, val, exc]

vars == <<source, ld, a, b, fh, ingested, ret>>

-----------------------------------------------------------------------------
(* Bounds of the model. *)

\* the largest window width k a Composition is constructed with
MaxK == 2
\* the largest number of characters ingested into one Composition
MaxTotal == 3
\* the largest number of SeqRecords ingested into one Composition
MaxSeqCount == 2
\* the longest source list of the LazyDict tests
MaxSource == 3
Alphabet == {"A", "C"}

RECURSIVE StrOfLen(_)
StrOfLen(n) ==
    IF n = 0 THEN {<<>>}
    ELSE {Append(s, ch) : s \in StrOfLen(n - 1), ch \in Alphabet}

\* every str of at most n characters
StrUpTo(n) == UNION {StrOfLen(i) : i \in 0..n}

-----------------------------------------------------------------------------
(* Numbers. *)

RECURSIVE GCD(_, _)
GCD(x, y) == IF y = 0 THEN x ELSE GCD(y, x % y)

Abs(x) == IF x < 0 THEN -x ELSE x

\* the fraction n/d (d > 0) in lowest terms
Frac(n, d) ==
    LET g == GCD(Abs(n), d) IN <<n \div g, d \div g>>

FracAdd(p, q) == Frac(p[1] * q[2] + q[1] * p[2], p[2] * q[2])
FracSub(p, q) == Frac(p[1] * q[2] - q[1] * p[2], p[2] * q[2])
FracMul(p, q) == Frac(p[1] * q[1], p[2] * q[2])
FracHalf(p) == Frac(p[1], 2 * p[2])
FracZero == <<0, 1>>
FracOne == <<1, 1>>

\* sum(d.values()) of a dict of fractions
RECURSIVE FracSum(_)
FracSum(d) ==
    IF DOMAIN d = {} THEN FracZero
    ELSE LET x == CHOOSE y \in DOMAIN d : TRUE
             rest == [y \in DOMAIN d \ {x} |-> d[y]]
         IN FracAdd(d[x], FracSum(rest))

\* sum(d.values()) of a dict of ints
RECURSIVE IntSum(_)
IntSum(d) ==
    IF DOMAIN d = {} THEN 0
    ELSE LET x == CHOOSE y \in DOMAIN d : TRUE
             rest == [y \in DOMAIN d \ {x} |-> d[y]]
         IN d[x] + IntSum(rest)

\* the call's outcome
Call(self, val, exc) == [self |-> self, val |-> val, exc |-> exc]

EmptyDict == <<>>


-----------------------------------------------------------------------------
(* class LazyDict.  A LazyDict is the record                               *)
(*   [keys_source, recompute, values_fresh, dict]                          *)
(* where keys_source and recompute name the two callables it was built     *)
(* with.  The callables are closures: they read the object they close over *)
(* at the moment they are called, so every operator that may call them     *)
(* takes env, the current state of that object.                            *)

None == "None"

\* the float math.log10(c) - math.log10(t).  For 1 <= c <= t <= 6 two such
\* floats are equal exactly when the fractions c/t are (0.0 when c = t), so
\* the float is named by the fraction in lowest terms.
log10_difference(c, t) ==
    [log10 |-> Frac(c, t)[1], minus_log10 |-> Frac(c, t)[2]]

\* recompute with the two logarithms of log_distribution exchanged
recompute_log_of_inverse(self, env, x) ==
    CASE self.recompute = "source_x_times_2" -> env.source[x + 1] * 2
      [] self.recompute = "log10_abs_minus_log10_count" ->
            log10_difference(env.kmer_count, env.abs_distribution[x])
      [] self.recompute = "abs_over_count" ->
            Frac(env.abs_distribution[x], env.kmer_count)

\* recompute with relative_distribution dividing by sequence_count
recompute_per_sequence(self, env, x) ==
    CASE self.recompute = "source_x_times_2" -> env.source[x + 1] * 2
      [] self.recompute = "log10_abs_minus_log10_count" ->
            log10_difference(env.abs_distribution[x], env.kmer_count)
      [] self.recompute = "abs_over_count" ->
            Frac(env.abs_distribution[x], env.sequence_count)

\* recompute=lambda x: source[x]*2                     (the tests)
\* recompute=lambda x: math.log10(self.abs_distribution[x])
\*                     - math.log10(self.kmer_count)  (log_distribution)
\* recompute=lambda x: self.abs_distribution[x]/self.kmer_count
\*                                                     (relative_distribution)
recompute(self, env, x) ==
    CASE self.recompute = "source_x_times_2" -> env.source[x + 1] * 2
      [] self.recompute = "log10_abs_minus_log10_count" ->
            log10_difference(env.abs_distribution[x], env.kmer_count)
      [] self.recompute = "abs_over_count" ->
            Frac(env.abs_distribution[x], env.kmer_count)

\* the exception recompute(x) raises, None when it returns
recompute_exc(self, env, x) ==
    CASE self.recompute = "source_x_times_2" ->
            IF x + 1 \in DOMAIN env.source THEN None ELSE "IndexError"
      [] self.recompute = "log10_abs_minus_log10_count" ->
            IF x \notin DOMAIN env.abs_distribution THEN "KeyError"
            ELSE IF env.abs_distribution[x] <= 0 \/ env.kmer_count <= 0
                 THEN "ValueError"
                 ELSE None
      [] self.recompute = "abs_over_count" ->
            IF x \notin DOMAIN env.abs_distribution THEN "KeyError"
            ELSE IF env.kmer_count = 0 THEN "ZeroDivisionError" ELSE None

\* keys_source=lambda: range(len(source))              (the tests)
\* keys_source=lambda: self.keys()                     (both views)
keys_source(self, env) ==
    CASE self.keys_source = "range_len_source" -> 0..(Len(env.source) - 1)
      [] self.keys_source = "self_keys" -> DOMAIN env.abs_distribution

LazyDict_init(ks, rc) ==
    [keys_source |-> ks, recompute |-> rc, values_fresh |-> FALSE,
     dict |-> EmptyDict]

\* the loop left as a comment in lines 99-100: only the keys already in
\* _dict are recomputed
update_values_of_old_keys(self, env) ==
    LET k == DOMAIN self.dict
        raised == {recompute_exc(self, env, x) : x \in k} \ {None}
    IN IF raised # {}
       THEN Call(self, None, CHOOSE e \in raised : TRUE)
       ELSE Call([self EXCEPT !.dict = [x \in k |-> recompute(self, env, x)],
                              !.values_fresh = TRUE],
                 None, None)

\* LazyDict._update_values: the whole cache is rebuilt from keys_source and
\* recompute; when recompute raises, neither _dict nor values_fresh is set.
update_values(self, env) ==
    LET k == keys_source(self, env)
        raised == {recompute_exc(self, env, x) : x \in k} \ {None}
    IN IF raised # {}
       THEN Call(self, None, CHOOSE e \in raised : TRUE)
       ELSE Call([self EXCEPT !.dict = [x \in k |-> recompute(self, env, x)],
                              !.values_fresh = TRUE],
                 None, None)

\* what every reading method starts with: rebuild iff values_fresh is False
refresh(self, env) ==
    IF self.values_fresh THEN Call(self, None, None)
    ELSE update_values(self, env)

\* self._dict[item]
dict_getitem(self, item) ==
    IF item \in DOMAIN self.dict THEN Call(self, self.dict[item], None)
    ELSE Call(self, None, "KeyError")

LazyDict_getitem(self, env, item) ==
    LET r == refresh(self, env)
    IN IF r.exc # None THEN r ELSE dict_getitem(r.self, item)

LazyDict_setitem(self, key, value) ==
    Call([self EXCEPT !.dict =
            [x \in DOMAIN self.dict \cup {key} |->
                IF x = key THEN value ELSE self.dict[x]]],
         None, None)

LazyDict_delitem(self, key) ==
    IF key \in DOMAIN self.dict
    THEN Call([self EXCEPT !.dict = [x \in DOMAIN self.dict \ {key} |-> self.dict[x]]],
              None, None)
    ELSE Call(self, None, "KeyError")

\* __iter__ and __len__ go to self._dict without looking at values_fresh
LazyDict_iter(self) == Call(self, DOMAIN self.dict, None)

LazyDict_len(self) == Call(self, Cardinality(DOMAIN self.dict), None)

\* `item in self`, the __contains__ inherited from Mapping: self[item] is
\* tried, and a KeyError means False
LazyDict_contains(self, env, item) ==
    LET r == LazyDict_getitem(self, env, item)
    IN IF r.exc = "KeyError" THEN Call(r.self, FALSE, None)
       ELSE IF r.exc # None THEN r
       ELSE Call(r.self, TRUE, None)

LazyDict_keys(self, env) ==
    LET r == refresh(self, env)
    IN IF r.exc # None THEN r ELSE Call(r.self, DOMAIN r.self.dict, None)

\* the values view, as the dict it is a view of
LazyDict_values(self, env) ==
    LET r == refresh(self, env)
    IN IF r.exc # None THEN r ELSE Call(r.self, r.self.dict, None)

\* items() rebuilds and returns nothing
LazyDict_items(self, env) ==
    LET r == refresh(self, env)
    IN IF r.exc # None THEN r ELSE Call(r.self, None, None)

\* __eq__ without the loop over the values
LazyDict_eq_keys_only(self, env, other) ==
    LET r == refresh(self, env)
    IN IF r.exc # None THEN r
       ELSE IF other.type \notin {"dict", "LazyDict"}
       THEN Call(r.self, None, "ValueError")
       ELSE Call(r.self, DOMAIN r.self.dict = DOMAIN other.dict, None)

\* LazyDict.__eq__ against other, a record [type, dict].  dict is what
\* other.keys() and other[x] yield: the dict itself when type = "dict", the
\* cache as other.keys() leaves it when type = "LazyDict".  Any other type
\* is an object that is no mapping.
LazyDict_eq(self, env, other) ==
    LET r == refresh(self, env)
    IN IF r.exc # None THEN r
       ELSE IF other.type \notin {"dict", "LazyDict"}
       THEN Call(r.self, None, "ValueError")
       ELSE IF DOMAIN r.self.dict = DOMAIN other.dict
       THEN Call(r.self,
                 \A x \in DOMAIN r.self.dict : ~(other.dict[x] # r.self.dict[x]),
                 None)
       ELSE Call(r.self, FALSE, None)

-----------------------------------------------------------------------------
(* class Composition.  A Composition is the record                         *)
(*   [k, kmer_count, sequence_count, abs_distribution, log_distribution,   *)
(*    relative_distribution, pseudocount]                                  *)
(* Both views close over self, so env of a view is the Composition.        *)
(* pseudocount is an attribute only read() sets: Unset until then.         *)
(*                                                                         *)
(* An argument is a record with a type field:                              *)
(*   [type |-> "SeqRecord", seq |-> s]    a SeqRecord whose str(seq) is s  *)
(*   [type |-> "str", seq |-> s]          a plain str, not a SeqRecord     *)
(*   [type |-> "list", items |-> <<..>>]  a list of such objects           *)
(*   [type |-> "NoneType"]                None                             *)

Unset == [unset |-> TRUE]

SeqRecord(s) == [type |-> "SeqRecord", seq |-> s]
PlainStr(s) == [type |-> "str", seq |-> s]
List(items) == [type |-> "list", items |-> items]
NoneObj == [type |-> "NoneType"]

Views == {"log_distribution", "relative_distribution"}

Min(x, y) == IF x < y THEN x ELSE y

\* s[j:j+3], the slice of distribution()
Slice_of_three(s, j, k) == SubSeq(s, j + 1, Min(j + 3, Len(s)))

\* the slice s[j:j + k] of a str, j >= 0 and k >= 0
Slice(s, j, k) == SubSeq(s, j + 1, Min(j + k, Len(s)))

\* count_kmer storing the running kmer_count as the count of the k-mer
count_kmer_running_total(self, kmer) ==
    [self EXCEPT
        !.kmer_count = @ + 1,
        !.abs_distribution =
            [x \in DOMAIN self.abs_distribution \cup {kmer} |->
                IF x = kmer THEN self.kmer_count + 1 ELSE self.abs_distribution[x]]]

\* count_kmer with kmer_count += 1 moved into the except branch
count_kmer_new_only(self, kmer) ==
    IF kmer \in DOMAIN self.abs_distribution
    THEN [self EXCEPT !.abs_distribution[kmer] = @ + 1]
    ELSE [self EXCEPT
            !.kmer_count = @ + 1,
            !.abs_distribution =
                [x \in DOMAIN self.abs_distribution \cup {kmer} |->
                    IF x = kmer THEN 1 ELSE self.abs_distribution[x]]]

\* one pass of the loop body of process_single_sequence, lines 159-163
count_kmer(self, kmer) ==
    [self EXCEPT
        !.kmer_count = @ + 1,
        !.abs_distribution =
            IF kmer \in DOMAIN self.abs_distribution
            THEN [self.abs_distribution EXCEPT ![kmer] = @ + 1]
            ELSE [x \in DOMAIN self.abs_distribution \cup {kmer} |->
                    IF x = kmer THEN 1 ELSE self.abs_distribution[x]]]

\* range(len(s) - self.k), the bound of distribution() and prob()
range_stop_without_last(self, s) == Len(s) - self.k

\* range(len(s)): a window at every position
range_stop_every_position(self, s) == Len(s)

\* range(len(s) - self.k+1), as the index one past its last element
range_stop(self, s) == Len(s) - self.k + 1

\* for j in range(...), from index j on
RECURSIVE window_loop(_, _, _)
window_loop(self, s, j) ==
    IF j >= range_stop(self, s) THEN self
    ELSE window_loop(count_kmer(self, Slice(s, j, self.k)), s, j + 1)

\* finish_sequence without line 166
finish_sequence_one_view(self) ==
    [self EXCEPT !.sequence_count = @ + 1,
                 !.log_distribution.values_fresh = FALSE]

\* what process_single_sequence does once the loop is over, lines 164-166
finish_sequence(self) ==
    [self EXCEPT !.sequence_count = @ + 1,
                 !.log_distribution.values_fresh = FALSE,
                 !.relative_distribution.values_fresh = FALSE]

process_single_sequence(self, sequence) ==
    IF sequence.type # "SeqRecord"
    THEN Call(self, None, "ValueError")
    ELSE Call(finish_sequence(window_loop(self, sequence.seq, 0)), None, None)

\* the loop of process ended after its first pass
process_items_first_only(self, items, i) ==
    IF i > Len(items) THEN Call(self, None, None)
    ELSE process_single_sequence(self, items[i])

\* for single_item in item, from position i on; the first exception ends it
RECURSIVE process_items(_, _, _)
process_items(self, items, i) ==
    IF i > Len(items) THEN Call(self, None, None)
    ELSE LET r == process_single_sequence(self, items[i])
         IN IF r.exc # None THEN r ELSE process_items(r.self, items, i + 1)

process(self, item) ==
    IF item.type = "SeqRecord" THEN process_single_sequence(self, item)
    ELSE IF item.type \in {"list", "tuple"} THEN process_items(self, item.items, 1)
    ELSE Call(self, None, None)

\* bool(seq) of `if seq:`; a SeqRecord is always true
truthy(obj) ==
    CASE obj.type = "NoneType" -> FALSE
      [] obj.type = "SeqRecord" -> TRUE
      [] obj.type = "str" -> Len(obj.seq) > 0
      [] obj.type \in {"list", "tuple"} -> Len(obj.items) > 0

\* Composition.__init__ up to line 127
Composition_new(k) ==
    [k |-> k, kmer_count |-> 0, sequence_count |-> 0,
     abs_distribution |-> EmptyDict,
     log_distribution |->
        LazyDict_init("self_keys", "log10_abs_minus_log10_count"),
     relative_distribution |-> LazyDict_init("self_keys", "abs_over_count"),
     pseudocount |-> Unset]

\* Composition.keys
Composition_keys(self) == Call(self, DOMAIN self.abs_distribution, None)

\* a method of one of the two views, called on the Composition's attribute
view_getitem(self, view, item) ==
    LET r == LazyDict_getitem(self[view], self, item)
    IN Call([self EXCEPT ![view] = r.self], r.val, r.exc)

view_keys(self, view) ==
    LET r == LazyDict_keys(self[view], self)
    IN Call([self EXCEPT ![view] = r.self], r.val, r.exc)

view_values(self, view) ==
    LET r == LazyDict_values(self[view], self)
    IN Call([self EXCEPT ![view] = r.self], r.val, r.exc)

view_items(self, view) ==
    LET r == LazyDict_items(self[view], self)
    IN Call([self EXCEPT ![view] = r.self], r.val, r.exc)

view_eq(self, view, other) ==
    LET r == LazyDict_eq(self[view], self, other)
    IN Call([self EXCEPT ![view] = r.self], r.val, r.exc)

\* Composition.__getitem__
Composition_getitem(self, item) == view_getitem(self, "log_distribution", item)

-----------------------------------------------------------------------------
(* Composition.write and Composition.read.  A stream is the sequence of    *)
(* its lines; a line 'x\ty\n' is the pair <<x, y>> of its two fields.  The *)
(* first field is a str.  The second is the text '{0}'.format(v) of a      *)
(* value v, modelled as [fmt, of]: fmt is the type of v ("int" or "float") *)
(* and of is v.  format() of a float is its repr, which float() reads back *)
(* to the same float; int() reads back the text of an int and raises       *)
(* ValueError on the text of a float.                                      *)

Pseudo == <<"P", "s", "e", "u", "d", "o">>
SCount == <<"S", "C", "o", "u", "n", "t">>

format_float(v) == [fmt |-> "float", of |-> v]
format_int(v) == [fmt |-> "int", of |-> v]

\* float(fl)
float_of(fl) ==
    IF fl.fmt \in {"float", "int"} THEN Call(None, fl.of, None)
    ELSE Call(None, None, "ValueError")

\* int(fl)
int_of(fl) ==
    IF fl.fmt = "int" THEN Call(None, fl.of, None)
    ELSE Call(None, None, "ValueError")

File(lines) == [type |-> "file", lines |-> lines]

\* the k-mer lines of write, lines 223-224, for the keys in the given order
RECURSIVE write_kmers(_, _, _, _)
write_kmers(self, lines, order, i) ==
    IF i > Len(order) THEN Call(self, lines, None)
    ELSE LET r == Composition_getitem(self, order[i])
         IN IF r.exc # None THEN Call(r.self, lines, r.exc)
            ELSE write_kmers(r.self,
                             Append(lines, <<order[i], format_float(r.val)>>),
                             order, i + 1)

\* Composition.write(fh): val is the content of fh after the call.  order is
\* the order in which self.keys() yields the keys.
write(self, lines, order) ==
    IF self.kmer_count = 0 THEN Call(self, lines, "ZeroDivisionError")
    ELSE IF self.pseudocount = Unset THEN Call(self, lines, "AttributeError")
    ELSE write_kmers(self,
                     lines \o <<<<Pseudo, format_float(self.pseudocount)>>,
                                <<SCount, format_int(self.sequence_count)>>>>,
                     order, 1)

\* read_line with the length check made for every k-mer line
read_line_checks_every_kmer(st, line) ==
    LET kmer == line[1]
        fl == line[2]
    IN IF kmer = Pseudo
       THEN Call([st EXCEPT !.self.pseudocount = float_of(fl).val], None, None)
       ELSE IF kmer = SCount
       THEN Call([st EXCEPT !.self.sequence_count = int_of(fl).val], None, None)
       ELSE IF Len(kmer) # st.self.k
       THEN Call(st, None, "ValueError")
       ELSE Call(st, None, None)

\* the body of the loop of read for one line; st is [self, model, checked_len]
read_line(st, line) ==
    LET kmer == line[1]
        fl == line[2]
    IN IF kmer = Pseudo
       THEN LET f == float_of(fl)
            IN IF f.exc # None THEN Call(st, None, f.exc)
               ELSE Call([st EXCEPT !.self.pseudocount = f.val], None, None)
       ELSE IF kmer = SCount
       THEN LET n == int_of(fl)
            IN IF n.exc # None THEN Call(st, None, n.exc)
               ELSE Call([st EXCEPT !.self.sequence_count = n.val,
                                    !.model = [x \in DOMAIN st.model \cup {kmer} |->
                                                IF x = kmer THEN fl ELSE st.model[x]]],
                         None, None)
       ELSE IF ~st.checked_len /\ Len(kmer) # st.self.k
       THEN Call([st EXCEPT !.checked_len = TRUE], None, "ValueError")
       ELSE Call([st EXCEPT !.checked_len = TRUE,
                            !.model = [x \in DOMAIN st.model \cup {kmer} |->
                                        IF x = kmer THEN fl ELSE st.model[x]]],
                 None, None)

RECURSIVE read_lines(_, _, _)
read_lines(st, lines, i) ==
    IF i > Len(lines) THEN Call(st, None, None)
    ELSE LET r == read_line(st, lines[i])
         IN IF r.exc # None THEN r ELSE read_lines(r.self, lines, i + 1)

\* Composition.read(fh): model is a local that is dropped on return
read(self, lines) ==
    LET r == read_lines([self |-> self, model |-> EmptyDict, checked_len |-> FALSE],
                        lines, 1)
    IN Call(r.self.self, None, r.exc)

\* Composition(k, seq, fh): val is None; exc is the exception that ended the
\* construction, and then no object exists
Composition_init(k, seq, f) ==
    LET c0 == Composition_new(k)
        r1 == IF truthy(seq) THEN process(c0, seq) ELSE Call(c0, None, None)
    IN IF r1.exc # None THEN r1
       ELSE IF f.type # "NoneType" THEN read(r1.self, f.lines)
       ELSE r1

-----------------------------------------------------------------------------
(* The distance functions.  A call on two Compositions returns             *)
(* self = <<a, b>>, the two objects after the call: reading a stale view   *)
(* rebuilds it, and nothing else changes.  A rebuild depends on the        *)
(* counts alone, so a call on one object twice, f(a, a), leaves that       *)
(* object as the call on two equal objects leaves either.                  *)
(*                                                                         *)
(* euclidean returns Decimal n.sqrt(): the record [sqrt |-> n], n the sum  *)
(* as a fraction.  kullback_leibler returns the sum over the shared keys   *)
(* of d[j] * (log2(d[j]) - log2(e[j])): the record [kl |-> terms], terms   *)
(* mapping each shared key j to <<d[j], e[j]>>.  ffp_distance returns      *)
(* x/2 + y/2 of two such sums: [half |-> x, plus_half |-> y].              *)

\* set(a.keys()).intersection(set(b.keys()))
shared_keys(a_, b_) == DOMAIN a_.abs_distribution \cap DOMAIN b_.abs_distribution

\* a.relative_distribution[j] for the keys of js: the first read rebuilds a
\* stale view, and no key means no read
read_relative(self, js) ==
    IF js = {} THEN Call(self, EmptyDict, None)
    ELSE view_values(self, "relative_distribution")

\* (aj - bj)**2
squared_difference(aj, bj) == FracMul(FracSub(aj, bj), FracSub(aj, bj))

\* the sum of euclidean taken over the keys of either model, a key of one
\* model alone counted with the frequency 0 in the other
euclidean_sum_over_union(ra, rb, js) ==
    IF ra.exc # None THEN Call(<<ra.self, rb.self>>, None, ra.exc)
    ELSE IF rb.exc # None THEN Call(<<ra.self, rb.self>>, None, rb.exc)
    ELSE Call(<<ra.self, rb.self>>,
              [sqrt |-> FracSum([j \in DOMAIN ra.val \cup DOMAIN rb.val |->
                  squared_difference(
                      IF j \in DOMAIN ra.val THEN ra.val[j] ELSE FracZero,
                      IF j \in DOMAIN rb.val THEN rb.val[j] ELSE FracZero)])],
              None)

\* the loop of euclidean once both views have been read
euclidean_sum(ra, rb, js) ==
    IF ra.exc # None THEN Call(<<ra.self, rb.self>>, None, ra.exc)
    ELSE IF rb.exc # None THEN Call(<<ra.self, rb.self>>, None, rb.exc)
    ELSE Call(<<ra.self, rb.self>>,
              [sqrt |-> FracSum([j \in js |-> squared_difference(ra.val[j], rb.val[j])])],
              None)

euclidean(a_, b_) ==
    LET js == shared_keys(a_, b_)
        ra == read_relative(a_, js)
    IN euclidean_sum(ra,
                     IF ra.exc # None THEN Call(b_, None, None)
                     ELSE read_relative(b_, js),
                     js)

\* kullback_leibler(d, e) for two dicts
kullback_leibler(d, e) ==
    [kl |-> [j \in DOMAIN d \cap DOMAIN e |-> <<d[j], e[j]>>]]

\* kullback_leibler(a.relative_distribution, b.relative_distribution): d.keys()
\* and e.keys() rebuild a view that is stale
kullback_leibler_of_views(a_, b_) ==
    LET ra == view_values(a_, "relative_distribution")
        rb == view_values(b_, "relative_distribution")
    IN IF ra.exc # None THEN Call(<<ra.self, b_>>, None, ra.exc)
       ELSE IF rb.exc # None THEN Call(<<ra.self, rb.self>>, None, rb.exc)
       ELSE Call(<<ra.self, rb.self>>, kullback_leibler(ra.val, rb.val), None)

\* the midpoint without its division by 2
midpoint_sum(p, q) == FracAdd(p, q)

\* avg_model[j] = (a.relative_distribution[j]+b.relative_distribution[j])/2
midpoint(p, q) == FracHalf(FracAdd(p, q))

\* ffp_distance once both views have been read: kullback_leibler calls
\* keys() on the view it is given, which rebuilds a view that is stale
ffp_sum(ra, rb, js) ==
    IF ra.exc # None THEN Call(<<ra.self, rb.self>>, None, ra.exc)
    ELSE IF rb.exc # None THEN Call(<<ra.self, rb.self>>, None, rb.exc)
    ELSE Call(<<ra.self, rb.self>>,
              [half |->
                  kullback_leibler(ra.val, [j \in js |-> midpoint(ra.val[j], rb.val[j])]),
               plus_half |->
                  kullback_leibler(rb.val, [j \in js |-> midpoint(ra.val[j], rb.val[j])])],
              None)

ffp_distance(a_, b_) ==
    IF ~(a_.k = b_.k) THEN Call(<<a_, b_>>, None, "ValueError")
    ELSE LET ra == view_values(a_, "relative_distribution")
         IN ffp_sum(ra,
                    IF ra.exc # None THEN Call(b_, None, None)
                    ELSE view_values(b_, "relative_distribution"),
                    shared_keys(a_, b_))

\* whether a returned distance compares equal to 0.  A sum of squares is 0
\* when it is the fraction 0.  A Kullback-Leibler sum is 0 when all its terms
\* are: d[j] > 0, so a term is 0 exactly when the two logarithms are equal,
\* which for the fractions of this model is when d[j] = e[j].
is_zero(v) ==
    IF "sqrt" \in DOMAIN v THEN v.sqrt = FracZero
    ELSE IF "kl" \in DOMAIN v THEN \A j \in DOMAIN v.kl : v.kl[j][1] = v.kl[j][2]
    ELSE (\A j \in DOMAIN v.half.kl : v.half.kl[j][1] = v.half.kl[j][2])
         /\ (\A j \in DOMAIN v.plus_half.kl :
                v.plus_half.kl[j][1] = v.plus_half.kl[j][2])

-----------------------------------------------------------------------------
(* The inputs of the ingesting calls. *)

\* an object that is no SeqRecord
NotASequence == PlainStr(<<"A">>)

\* every list of at most n elements, each a SeqRecord or NotASequence, whose
\* SeqRecords hold at most chars characters together
RECURSIVE ItemLists(_, _)
ItemLists(chars, n) ==
    IF n = 0 THEN {<<>>}
    ELSE {<<>>}
         \cup {<<NotASequence>> \o rest : rest \in ItemLists(chars, n - 1)}
         \cup UNION {{<<SeqRecord(s)>> \o rest :
                        rest \in ItemLists(chars - Len(s), n - 1)} :
                     s \in StrUpTo(chars)}

ItemListsTable ==
    [chars \in 0..MaxTotal |-> [n \in 0..MaxSeqCount |-> ItemLists(chars, n)]]

RECURSIVE TotalLen(_)
TotalLen(strs) ==
    IF strs = <<>> THEN 0 ELSE Len(Head(strs)) + TotalLen(Tail(strs))

\* what process() may be called with when chars characters and n SeqRecords
\* may still be ingested
Items(chars, n) ==
    {NoneObj, NotASequence}
    \cup (IF n > 0 THEN {SeqRecord(s) : s \in StrUpTo(chars)} ELSE {})
    \cup {List(items) : items \in ItemListsTable[chars][n]}

\* the strs of the SeqRecords a call process(item) ingests: the item itself,
\* or the elements of a list up to its first element that is no SeqRecord
RECURSIVE IngestedPrefix(_, _)
IngestedPrefix(items, i) ==
    IF i > Len(items) \/ items[i].type # "SeqRecord" THEN <<>>
    ELSE <<items[i].seq>> \o IngestedPrefix(items, i + 1)

IngestedBy(item) ==
    IF item.type = "SeqRecord" THEN <<item.seq>>
    ELSE IF item.type = "list" THEN IngestedPrefix(item.items, 1)
    ELSE <<>>

\* the window start positions 0..L-k of s at which the k characters are m
WindowStarts(s, m, k) ==
    {j \in 0..(Len(s) - k) : SubSeq(s, j + 1, j + k) = m}

RECURSIVE WindowCount(_, _, _)
WindowCount(strs, m, k) ==
    IF strs = <<>> THEN 0
    ELSE Cardinality(WindowStarts(Head(strs), m, k)) + WindowCount(Tail(strs), m, k)

NothingIngested(k) ==
    [count |-> 0, chars |-> 0, windows |-> [m \in StrOfLen(k) |-> 0]]

\* ingested after the SeqRecords of strs went into a Composition of width k
Record(before, strs, k) ==
    [count |-> before.count + Len(strs),
     chars |-> before.chars + TotalLen(strs),
     windows |-> [m \in StrOfLen(k) |-> before.windows[m] + WindowCount(strs, m, k)]]

CharsLeft == MaxTotal - ingested.chars
CountLeft == MaxSeqCount - ingested.count

\* every str a view may be asked for: the k-mers and a str that is none
Keys == StrOfLen(a.k) \cup {<<>>}

\* what ret keeps of an ingested argument: its type and its length (of the
\* str of a SeqRecord, of a list)
Shape(item) ==
    [type |-> item.type,
     len |-> IF item.type \in {"SeqRecord", "str"} THEN Len(item.seq)
             ELSE IF item.type = "list" THEN Len(item.items)
             ELSE 0]

Returned(op, arg, r) == [op |-> op, arg |-> arg, val |-> r.val, exc |-> r.exc]

-----------------------------------------------------------------------------
(* Spec: one Composition, constructed, fed sequences and read. *)

Idle == <<source, ld, b, fh>>

Init ==
    /\ source = <<>>
    /\ ld = NoneObj
    /\ b = NoneObj
    /\ fh = <<>>
    /\ \E k \in 1..MaxK : \E seq \in Items(MaxTotal, MaxSeqCount) :
          LET r == Composition_init(k, seq, NoneObj)
          IN /\ r.exc = None
             /\ a = r.self
             /\ ingested = Record(NothingIngested(k), IngestedBy(seq), k)
             /\ ret = Returned("Composition", Shape(seq), r)

\* a.process(item)
Process ==
    \E item \in Items(CharsLeft, CountLeft) :
        LET r == process(a, item)
        IN /\ a' = r.self
           /\ ingested' = Record(ingested, IngestedBy(item), a.k)
           /\ ret' = Returned("process", Shape(item), r)
           /\ UNCHANGED Idle

\* a.process_single_sequence(sequence)
ProcessSingleSequence ==
    \E sequence \in {NotASequence}
                    \cup (IF CountLeft > 0
                          THEN {SeqRecord(s) : s \in StrUpTo(CharsLeft)}
                          ELSE {}) :
        LET r == process_single_sequence(a, sequence)
        IN /\ a' = r.self
           /\ ingested' = Record(ingested, IngestedBy(sequence), a.k)
           /\ ret' = Returned("process_single_sequence", Shape(sequence), r)
           /\ UNCHANGED Idle

\* a.log_distribution[item], a.relative_distribution[item]
ViewGetitem ==
    \E view \in Views : \E item \in Keys :
        LET r == view_getitem(a, view, item)
        IN /\ a' = r.self
           /\ ret' = Returned("getitem", <<view, item>>, r)
           /\ UNCHANGED <<ingested, Idle>>

ViewKeys ==
    \E view \in Views :
        LET r == view_keys(a, view)
        IN /\ a' = r.self
           /\ ret' = Returned("keys", <<view>>, r)
           /\ UNCHANGED <<ingested, Idle>>

ViewValues ==
    \E view \in Views :
        LET r == view_values(a, view)
        IN /\ a' = r.self
           /\ ret' = Returned("values", <<view>>, r)
           /\ UNCHANGED <<ingested, Idle>>

ViewItems ==
    \E view \in Views :
        LET r == view_items(a, view)
        IN /\ a' = r.self
           /\ ret' = Returned("items", <<view>>, r)
           /\ UNCHANGED <<ingested, Idle>>

\* a.<view> == other, other a dict taken from the view earlier, an empty
\* dict or None
ViewEq ==
    \E view \in Views :
        \E other \in {[type |-> "dict", dict |-> a[view].dict],
                      [type |-> "dict", dict |-> EmptyDict], NoneObj} :
            LET r == view_eq(a, view, other)
            IN /\ a' = r.self
               /\ ret' = Returned("eq", <<view, other>>, r)
               /\ UNCHANGED <<ingested, Idle>>

\* a[item]
Getitem ==
    \E item \in Keys :
        LET r == Composition_getitem(a, item)
        IN /\ a' = r.self
           /\ ret' = Returned("Composition_getitem", item, r)
           /\ UNCHANGED <<ingested, Idle>>

Next ==
    \/ Process
    \/ ProcessSingleSequence
    \/ ViewGetitem
    \/ ViewKeys
    \/ ViewValues
    \/ ViewItems
    \/ ViewEq
    \/ Getitem

Spec == Init /\ [][Next]_vars

-----------------------------------------------------------------------------
(* Properties of Spec. *)

TotalWindows == IntSum(ingested.windows)

\* a is the fraction n/d
IsFraction(v, n, d) == v[1] * d = n * v[2]

\* C2: whenever the freshness flag of relative_distribution or of
\* log_distribution is true, the view's cache has exactly the keys of
\* abs_distribution, and each cached value is the one derived from the
\* current abs_distribution[key] and the current kmer_count.
FreshViewIsConsistent ==
    \A view \in Views :
        a[view].values_fresh =>
            /\ DOMAIN a[view].dict = DOMAIN a.abs_distribution
            /\ \A key \in DOMAIN a[view].dict :
                  IF view = "relative_distribution"
                  THEN IsFraction(a[view].dict[key],
                                  a.abs_distribution[key], a.kmer_count)
                  ELSE IsFraction(<<a[view].dict[key].log10,
                                    a[view].dict[key].minus_log10>>,
                                  a.abs_distribution[key], a.kmer_count)

\* a view that was read, went stale by a second ingest and was read again
FreshViewIsConsistent_witness ==
    /\ a.sequence_count = 2
    /\ a.relative_distribution.values_fresh
    /\ ~a.log_distribution.values_fresh
    /\ a.log_distribution.dict # EmptyDict
    /\ DOMAIN a.log_distribution.dict # DOMAIN a.abs_distribution
    /\ Cardinality(DOMAIN a.abs_distribution) = 2

\* whether the last call ingested one SeqRecord and returned
IngestedOne(r) ==
    /\ r.op \in {"process", "process_single_sequence"}
    /\ r.arg.type = "SeqRecord"
    /\ r.exc = None

\* C3: ingesting one sequence of length L into a Composition of window width
\* k increases kmer_count by exactly L - k + 1 when L >= k and by 0 when
\* L < k, whatever the model held before.
IngestAddsWindows ==
    [][IngestedOne(ret') =>
        a'.kmer_count = a.kmer_count
            + (IF ret'.arg.len >= a.k THEN ret'.arg.len - a.k + 1 ELSE 0)]_vars

\* a sequence with two windows went into a model that held a k-mer already
IngestAddsWindows_witness ==
    /\ IngestedOne(ret)
    /\ ret.arg.len = a.k + 1
    /\ a.sequence_count = 2
    /\ a.kmer_count = 3

\* C4: kmer_count equals the sum of all values of abs_distribution, and every
\* value of abs_distribution is an integer >= 1.
CountIsSumOfAbs ==
    /\ a.kmer_count = IntSum(a.abs_distribution)
    /\ \A m \in DOMAIN a.abs_distribution :
          a.abs_distribution[m] \in Nat \ {0}

\* a failed ingest, after a sequence of two windows (k = 2, three characters)
\* and one shorter than k
CountIsSumOfAbs_witness ==
    /\ ret.op = "process_single_sequence"
    /\ ret.exc = "ValueError"
    /\ a.k = 2
    /\ a.sequence_count = 2
    /\ a.kmer_count = 2

\* C5: abs_distribution[m] is the number of window start positions, over all
\* ingested sequences, at which the k characters are m (a k-mer of no window
\* is no key), and reading relative_distribution[m] gives that number
\* divided by kmer_count.
AbsCountsWindows ==
    /\ DOMAIN a.abs_distribution = {m \in StrOfLen(a.k) : ingested.windows[m] > 0}
    /\ \A m \in DOMAIN a.abs_distribution :
          a.abs_distribution[m] = ingested.windows[m]
    /\ (ret.op = "getitem" /\ ret.arg[1] = "relative_distribution"
            /\ ret.exc = None)
        => IsFraction(ret.val, ingested.windows[ret.arg[2]], a.kmer_count)

\* a k-mer seen twice among three windows of two sequences is read as 2/3
AbsCountsWindows_witness ==
    /\ ret.op = "getitem"
    /\ ret.arg[1] = "relative_distribution"
    /\ ret.exc = None
    /\ ret.val = <<2, 3>>
    /\ ingested.count = 2

\* C6: every key of abs_distribution, and of a view that has been rebuilt,
\* is a string of length exactly k.
KeysHaveLengthK ==
    /\ \A m \in DOMAIN a.abs_distribution : Len(m) = a.k
    /\ \A view \in Views :
          a[view].values_fresh => \A m \in DOMAIN a[view].dict : Len(m) = a.k

KeysHaveLengthK_witness ==
    /\ a.k = 2
    /\ Cardinality(DOMAIN a.abs_distribution) = 2
    /\ a.log_distribution.values_fresh
    /\ Cardinality(DOMAIN a.log_distribution.dict) = 2

\* whether the last call read the values of relative_distribution
ReadRelativeValues ==
    ret.op = "values" /\ ret.arg = <<"relative_distribution">> /\ ret.exc = None

\* C7 as stated: after any ingestion of at least one sequence, the values
\* read from relative_distribution sum to 1.
RelativeSumsToOne_AnyIngestion ==
    (ReadRelativeValues /\ ingested.count >= 1) => FracSum(ret.val) = FracOne

\* C7, amended: after the ingestion of at least one sequence of length >= k
\* (one that has a window), the values read from relative_distribution sum
\* to 1.
RelativeSumsToOne ==
    (ReadRelativeValues /\ TotalWindows >= 1) => FracSum(ret.val) = FracOne

RelativeSumsToOne_witness ==
    /\ ReadRelativeValues
    /\ ingested.count = 2
    /\ Cardinality(DOMAIN ret.val) = 2
    /\ \E m \in DOMAIN ret.val : ret.val[m] = <<2, 3>>

\* the values of log_distribution the last call read: those of values(), the
\* one of log_distribution[item] or of a[item]
LogValuesRead ==
    IF ret.exc # None THEN {}
    ELSE IF ret.op = "values" /\ ret.arg = <<"log_distribution">>
    THEN {ret.val[m] : m \in DOMAIN ret.val}
    ELSE IF \/ ret.op = "Composition_getitem"
            \/ ret.op = "getitem" /\ ret.arg[1] = "log_distribution"
    THEN {ret.val}
    ELSE {}

\* C19: every k-mer of abs_distribution has a count of at least 1 and at
\* most kmer_count, so that every value read from log_distribution,
\* log10(count) - log10(kmer_count), is <= 0; and it is 0 only when
\* abs_distribution has a single k-mer.
LogValuesAreNotPositive ==
    /\ \A m \in DOMAIN a.abs_distribution :
          1 <= a.abs_distribution[m] /\ a.abs_distribution[m] <= a.kmer_count
    /\ \A v \in LogValuesRead :
          /\ v.log10 <= v.minus_log10
          /\ v.log10 = v.minus_log10 => Cardinality(DOMAIN a.abs_distribution) = 1

\* the values of the log-probabilities of two k-mers, seen once and twice in
\* two sequences
LogValuesAreNotPositive_witness ==
    /\ ret.op = "values"
    /\ ret.arg = <<"log_distribution">>
    /\ ret.exc = None
    /\ ingested.count = 2
    /\ LogValuesRead = {log10_difference(1, 3), log10_difference(2, 3)}

-----------------------------------------------------------------------------
(* SpecLazy: the LazyDict of the tests,                                    *)
(*   ld = LazyDict(recompute=lambda x: source[x]*2,                        *)
(*                 keys_source=lambda: range(len(source)))                 *)
(* with the list source changed behind its back.  ret.arg is               *)
(* [stale, x]: whether the call found values_fresh False, and the call's   *)
(* argument.                                                               *)

IdleLazy == <<a, b, fh, ingested>>

\* the values put into source
SourceValues == {1, 2}

\* the keys a call may name: the indices of the longest source
LazyKeys == 0..(MaxSource - 1)

Env == [source |-> source]

\* expect = {x: 2*source[x] for x in range(len(source))}, test_kmers.py:12
Expected == [x \in 0..(Len(source) - 1) |-> source[x + 1] * 2]

\* what a LazyDict is compared with: expect, expect short of its last key,
\* expect with another value for key 0, a copy of the cache, {} and None
Others ==
    {[type |-> "dict", dict |-> d] :
        d \in {Expected,
               [x \in 0..(Len(source) - 2) |-> Expected[x]],
               [x \in DOMAIN Expected |-> IF x = 0 THEN Expected[x] + 2 ELSE Expected[x]],
               ld.dict,
               EmptyDict}}
    \cup {NoneObj}

InitLazy ==
    /\ source \in UNION {[1..n -> SourceValues] : n \in 0..MaxSource}
    /\ ld = LazyDict_init("range_len_source", "source_x_times_2")
    /\ a = NoneObj
    /\ b = NoneObj
    /\ fh = <<>>
    /\ ingested = <<>>
    /\ ret = [op |-> "LazyDict", arg |-> None, val |-> None, exc |-> None]

Called(op, x, r) ==
    /\ ld' = r.self
    /\ ret' = Returned(op, [stale |-> ~ld.values_fresh, x |-> x], r)

\* source.append(v)
SourceAppend ==
    /\ Len(source) < MaxSource
    /\ \E v \in SourceValues : source' = Append(source, v)
    /\ ret' = [op |-> "append", arg |-> None, val |-> None, exc |-> None]
    /\ UNCHANGED <<ld, IdleLazy>>

\* source.pop(0)
SourcePop ==
    /\ source # <<>>
    /\ source' = Tail(source)
    /\ ret' = [op |-> "pop", arg |-> None, val |-> None, exc |-> None]
    /\ UNCHANGED <<ld, IdleLazy>>

\* ld.values_fresh = False
Invalidate ==
    /\ ld' = [ld EXCEPT !.values_fresh = FALSE]
    /\ ret' = [op |-> "invalidate", arg |-> None, val |-> None, exc |-> None]
    /\ UNCHANGED <<source, IdleLazy>>

LazyGetitem ==
    /\ \E item \in LazyKeys : Called("getitem", item, LazyDict_getitem(ld, Env, item))
    /\ UNCHANGED <<source, IdleLazy>>

LazyKeysCall ==
    /\ Called("keys", None, LazyDict_keys(ld, Env))
    /\ UNCHANGED <<source, IdleLazy>>

LazyValues ==
    /\ Called("values", None, LazyDict_values(ld, Env))
    /\ UNCHANGED <<source, IdleLazy>>

LazyItems ==
    /\ Called("items", None, LazyDict_items(ld, Env))
    /\ UNCHANGED <<source, IdleLazy>>

LazyEq ==
    /\ \E other \in Others : Called("eq", other, LazyDict_eq(ld, Env, other))
    /\ UNCHANGED <<source, IdleLazy>>

LazyIter ==
    /\ Called("iter", None, LazyDict_iter(ld))
    /\ UNCHANGED <<source, IdleLazy>>

LazyLen ==
    /\ Called("len", None, LazyDict_len(ld))
    /\ UNCHANGED <<source, IdleLazy>>

LazyContains ==
    /\ \E item \in LazyKeys : Called("contains", item, LazyDict_contains(ld, Env, item))
    /\ UNCHANGED <<source, IdleLazy>>

LazySetitem ==
    /\ \E key \in LazyKeys : \E value \in {2 * v : v \in SourceValues} :
          Called("setitem", <<key, value>>, LazyDict_setitem(ld, key, value))
    /\ UNCHANGED <<source, IdleLazy>>

LazyDelitem ==
    /\ \E key \in LazyKeys : Called("delitem", key, LazyDict_delitem(ld, key))
    /\ UNCHANGED <<source, IdleLazy>>

NextLazy ==
    \/ SourceAppend
    \/ SourcePop
    \/ Invalidate
    \/ LazyGetitem
    \/ LazyKeysCall
    \/ LazyValues
    \/ LazyItems
    \/ LazyEq
    \/ LazyIter
    \/ LazyLen
    \/ LazyContains
    \/ LazySetitem
    \/ LazyDelitem

SpecLazy == InitLazy /\ [][NextLazy]_vars

\* C1: after the view is invalidated and then read through ld[key], keys(),
\* values() or ==, the cache is exactly {k: f(k) for k in key_source()} as of
\* that read: keys no longer produced are dropped and no value from before
\* the invalidation survives.
StaleReadRebuilds ==
    (ret.op \in {"getitem", "keys", "values", "eq"}
        /\ ret.arg.stale)
    => (ld.values_fresh /\ ld.dict = Expected)

\* the second comparison of test_lazy_dict_recompute_on_use: == on a stale
\* view, which returns True for the dict of three keys built from the source
StaleReadRebuilds_witness ==
    /\ ret.op = "eq"
    /\ ret.arg.stale
    /\ ret.exc = None
    /\ ret.val = TRUE
    /\ Len(source) = 3
    /\ \E x \in DOMAIN ld.dict : ld.dict[x] # ld.dict[0]

\* C15: every read of a stale view (ld[key], keys(), values(), items(),
\* iteration, len(), a membership test, ==) rebuilds the cache from the
\* current key source before it answers, so that no read answers from the
\* cache of before the invalidation.
EveryReadRebuilds ==
    (ret.op \in {"getitem", "keys", "values", "items", "iter", "len", "contains", "eq"}
        /\ ret.arg.stale)
    => (ld.values_fresh /\ ld.dict = Expected)

-----------------------------------------------------------------------------
(* SpecDist: two Compositions, each built from one SeqRecord or from       *)
(* nothing, and the distance functions called on them.  ret.arg is         *)
(* [same]: whether the call was f(a, a) rather than f(a, b).               *)

IdleDist == <<source, ld, fh, ingested>>

\* what a Composition of SpecDist and SpecIO is constructed from
Seqs == {NoneObj} \cup {SeqRecord(s) : s \in StrUpTo(MaxTotal)}

InitDist ==
    /\ source = <<>>
    /\ ld = NoneObj
    /\ fh = NoneObj
    /\ ingested = <<>>
    /\ \E ka \in 1..MaxK : \E sa \in Seqs : a = Composition_init(ka, sa, NoneObj).self
    /\ \E kb \in 1..MaxK : \E sb \in Seqs : b = Composition_init(kb, sb, NoneObj).self
    /\ ret = [op |-> "Composition", arg |-> None, val |-> None, exc |-> None]

\* euclidean(a, b)
Euclidean ==
    LET r == euclidean(a, b)
    IN /\ a' = r.self[1]
       /\ b' = r.self[2]
       /\ ret' = Returned("euclidean", [same |-> FALSE], r)
       /\ UNCHANGED IdleDist

\* euclidean(a, a)
EuclideanSelf ==
    LET r == euclidean(a, a)
    IN /\ a' = r.self[1]
       /\ ret' = Returned("euclidean", [same |-> TRUE], r)
       /\ UNCHANGED <<b, IdleDist>>

\* ffp_distance(a, b)
FfpDistance ==
    LET r == ffp_distance(a, b)
    IN /\ a' = r.self[1]
       /\ b' = r.self[2]
       /\ ret' = Returned("ffp_distance", [same |-> FALSE], r)
       /\ UNCHANGED IdleDist

\* ffp_distance(a, a)
FfpDistanceSelf ==
    LET r == ffp_distance(a, a)
    IN /\ a' = r.self[1]
       /\ ret' = Returned("ffp_distance", [same |-> TRUE], r)
       /\ UNCHANGED <<b, IdleDist>>

\* kullback_leibler(a.relative_distribution, b.relative_distribution)
KullbackLeibler ==
    LET r == kullback_leibler_of_views(a, b)
    IN /\ a' = r.self[1]
       /\ b' = r.self[2]
       /\ ret' = Returned("kullback_leibler", [same |-> FALSE], r)
       /\ UNCHANGED IdleDist

NextDist ==
    \/ Euclidean
    \/ EuclideanSelf
    \/ FfpDistance
    \/ FfpDistanceSelf
    \/ KullbackLeibler

SpecDist == InitDist /\ [][NextDist]_vars

IsDistance == ret.op \in {"euclidean", "ffp_distance"}

\* C9: every distance function called on two Compositions whose k values
\* differ fails with ValueError and returns no distance.
DistanceRejectsDifferentK ==
    (IsDistance /\ ~ret.arg.same /\ a.k # b.k) => ret.exc = "ValueError"

\* whether x and y have identical relative distributions: the same keys,
\* each with the same share of the k-mers
SameRelative(x, y) ==
    /\ DOMAIN x.abs_distribution = DOMAIN y.abs_distribution
    /\ \A m \in DOMAIN x.abs_distribution :
          x.abs_distribution[m] * y.kmer_count = y.abs_distribution[m] * x.kmer_count

\* C10: for two non-empty Compositions with the same k whose relative
\* distributions are identical (in particular a compared with itself),
\* euclidean returns 0 and ffp_distance returns 0.
IdenticalAreAtDistanceZero ==
    (/\ IsDistance
     /\ a.kmer_count >= 1
     /\ \/ ret.arg.same
        \/ b.kmer_count >= 1 /\ a.k = b.k /\ SameRelative(a, b))
    => (ret.exc = None /\ is_zero(ret.val))

\* ffp_distance of two models that differ in their counts and agree in their
\* relative distributions
IdenticalAreAtDistanceZero_witness ==
    /\ ret.op = "ffp_distance"
    /\ ~ret.arg.same
    /\ a.k = b.k
    /\ a.kmer_count >= 1
    /\ b.kmer_count >= 1
    /\ SameRelative(a, b)
    /\ a.abs_distribution # b.abs_distribution

\* the relative frequency of the k-mer j in x
RelativeOf(x, j) == Frac(x.abs_distribution[j], x.kmer_count)

\* C18: euclidean and kullback_leibler sum one term for each k-mer that is a
\* key of both models and nothing else: a k-mer of one model alone adds
\* nothing, and two models without a common k-mer are at euclidean
\* distance 0.
SumsOverSharedKeysOnly ==
    LET js == DOMAIN a.abs_distribution \cap DOMAIN b.abs_distribution
    IN /\ (ret.op = "euclidean" /\ ~ret.arg.same) =>
             /\ ret.exc = None
             /\ ret.val.sqrt = FracSum([j \in js |->
                    squared_difference(RelativeOf(a, j), RelativeOf(b, j))])
             /\ js = {} => is_zero(ret.val)
       /\ ret.op = "kullback_leibler" =>
             /\ ret.exc = None
             /\ DOMAIN ret.val.kl = js
             /\ \A j \in js : ret.val.kl[j] = <<RelativeOf(a, j), RelativeOf(b, j)>>

\* euclidean of two models of the same k that share one k-mer, one of them
\* with a second k-mer: the distance is that of the shared k-mer alone
SumsOverSharedKeysOnly_witness ==
    /\ ret.op = "euclidean"
    /\ ~ret.arg.same
    /\ a.k = b.k
    /\ Cardinality(DOMAIN a.abs_distribution) = 2
    /\ Cardinality(DOMAIN b.abs_distribution) = 1
    /\ DOMAIN b.abs_distribution \subseteq DOMAIN a.abs_distribution
    /\ ret.val.sqrt = <<1, 4>>

-----------------------------------------------------------------------------
(* SpecIO: a Composition a built from one SeqRecord or from nothing, which *)
(* may read model files, is written to a new stream fh, and is read back   *)
(* from fh into a new Composition b.                                       *)

IdleIO == <<source, ld, ingested>>

\* the float in the Pseudo line of a model file: -log10 of a k-mer count
SamplePseudo == log10_difference(1, 2)

\* the two header lines of a model file
Header == <<<<Pseudo, format_float(SamplePseudo)>>, <<SCount, format_int(1)>>>>

\* a k-mer line of a model file
KmerLine(m) == <<m, format_float(SamplePseudo)>>

\* model files: empty, the header alone, the header with the text of a float
\* as its sequence count, and the header with one or two k-mer lines
SampleFiles ==
    {<<>>, Header,
     <<<<Pseudo, format_float(SamplePseudo)>>, <<SCount, format_float(SamplePseudo)>>>>}
    \cup {Header \o <<KmerLine(m)>> : m \in StrUpTo(MaxK) \ {<<>>}}
    \cup {Header \o <<KmerLine(<<"A">>), KmerLine(m)>> : m \in StrUpTo(MaxK) \ {<<>>}}

\* every order in which a dict of the keys S may yield them
Orders(S) ==
    {order \in [1..Cardinality(S) -> S] :
        \A i, j \in 1..Cardinality(S) : order[i] = order[j] => i = j}

InitIO ==
    /\ source = <<>>
    /\ ld = NoneObj
    /\ ingested = <<>>
    /\ fh = NoneObj
    /\ b = NoneObj
    /\ \E k \in 1..MaxK : \E seq \in Seqs : a = Composition_init(k, seq, NoneObj).self
    /\ ret = [op |-> "Composition", arg |-> None, val |-> None, exc |-> None]

\* a.read(f) for a model file f, before a is written
ReadModel ==
    /\ fh = NoneObj
    /\ \E lines \in SampleFiles :
          LET r == read(a, lines)
          IN /\ a' = r.self
             /\ ret' = Returned("read", lines, r)
    /\ UNCHANGED <<b, fh, IdleIO>>

\* a.write(fh) on a new stream; fh holds what was written, also when write
\* raised
Write ==
    /\ fh = NoneObj
    /\ \E order \in Orders(DOMAIN a.abs_distribution) :
          LET r == write(a, <<>>, order)
          IN /\ a' = r.self
             /\ fh' = File(r.val)
             /\ ret' = [op |-> "write", arg |-> None, val |-> None, exc |-> r.exc]
    /\ UNCHANGED <<b, IdleIO>>

\* b = Composition(k, fh=fh) on what a.write(fh) wrote; no b when it raises
ReadBack ==
    /\ fh # NoneObj
    /\ \E k \in 1..MaxK :
          LET r == Composition_init(k, NoneObj, fh)
          IN /\ b' = IF r.exc = None THEN r.self ELSE NoneObj
             /\ ret' = Returned("read_back", k, r)
    /\ UNCHANGED <<a, fh, IdleIO>>

\* b[item]
GetitemBack ==
    /\ b # NoneObj
    /\ \E item \in StrOfLen(b.k) :
          LET r == Composition_getitem(b, item)
          IN /\ b' = r.self
             /\ ret' = Returned("Composition_getitem", item, r)
    /\ UNCHANGED <<a, fh, IdleIO>>

NextIO ==
    \/ ReadModel
    \/ Write
    \/ ReadBack
    \/ GetitemBack

SpecIO == InitIO /\ [][NextIO]_vars

\* whether the log-probability of m is the same in x and in y
SameLogProbability(x, y, m) ==
    LET rx == Composition_getitem(x, m)
        ry == Composition_getitem(y, m)
    IN rx.exc = None /\ ry.exc = None /\ rx.val = ry.val

\* C8: serializing a trained Composition (write) and then deserializing the
\* output into a fresh Composition of the same k (read) yields a model with
\* the same pseudocount, the same sequence_count and the same
\* log-probability for every k-mer of the original model.
RoundTripPreserves ==
    /\ (ret.op = "write" /\ a.kmer_count >= 1) => ret.exc = None
    /\ (ret.op = "read_back" /\ a.kmer_count >= 1 /\ ret.arg = a.k) =>
          /\ ret.exc = None
          /\ b.pseudocount = a.pseudocount
          /\ b.sequence_count = a.sequence_count
          /\ \A m \in DOMAIN a.abs_distribution : SameLogProbability(a, b, m)

\* The same round trip from a Composition that read a model file before it
\* was written, so that it has a pseudocount and write returns: read keeps
\* the two header values and drops every log-probability.
RoundTripPreserves_AfterRead ==
    (ret.op = "read_back" /\ a.kmer_count >= 1 /\ ret.arg = a.k
        /\ a.pseudocount # Unset /\ ret.exc = None) =>
          /\ b.pseudocount = a.pseudocount
          /\ b.sequence_count = a.sequence_count
          /\ \A m \in DOMAIN a.abs_distribution : SameLogProbability(a, b, m)

-----------------------------------------------------------------------------
(* The methods of Composition that neither ingest nor go through a view    *)
(* method with a freshness check.                                          *)

\* a __setitem__ that stores the value in abs_distribution
Composition_setitem_stores(self, key, value) ==
    Call([self EXCEPT !.abs_distribution =
            [x \in DOMAIN self.abs_distribution \cup {key} |->
                IF x = key THEN value ELSE self.abs_distribution[x]]],
         None, None)

\* Composition.__setitem__: raises before anything else
Composition_setitem(self, key, value) == Call(self, None, "NotImplementedError")

\* Composition.__delitem__: raises before anything else
Composition_delitem(self, key) == Call(self, None, "NotImplementedError")

\* Composition.__iter__: iter(self.log_distribution), that is
\* LazyDict.__iter__
Composition_iter(self) ==
    LET r == LazyDict_iter(self.log_distribution)
    IN Call([self EXCEPT !.log_distribution = r.self], r.val, r.exc)

\* len(self): __len__ returns None, which len() rejects
Composition_len(self) == Call(self, None, "TypeError")

-----------------------------------------------------------------------------
(* SpecOps: one Composition, constructed from one SeqRecord or from        *)
(* nothing, with every method of the class called on it.                   *)

IdleOps == <<source, ld, b, fh>>

InitOps ==
    /\ source = <<>>
    /\ ld = NoneObj
    /\ b = NoneObj
    /\ fh = <<>>
    /\ \E k \in 1..MaxK : \E seq \in Seqs :
          LET r == Composition_init(k, seq, NoneObj)
          IN /\ a = r.self
             /\ ingested = Record(NothingIngested(k), IngestedBy(seq), k)
             /\ ret = Returned("Composition", Shape(seq), r)

\* a.process(item) for a SeqRecord or an object that is none
OpsProcess ==
    \E item \in {NotASequence}
                \cup (IF CountLeft > 0
                      THEN {SeqRecord(s) : s \in StrUpTo(CharsLeft)}
                      ELSE {}) :
        LET r == process(a, item)
        IN /\ a' = r.self
           /\ ingested' = Record(ingested, IngestedBy(item), a.k)
           /\ ret' = Returned("process", Shape(item), r)
           /\ UNCHANGED IdleOps

\* a[key] = value
OpsSetitem ==
    \E key \in Keys : \E value \in {1} :
        LET r == Composition_setitem(a, key, value)
        IN /\ a' = r.self
           /\ ret' = Returned("setitem", <<key, value>>, r)
           /\ UNCHANGED <<ingested, IdleOps>>

\* del a[key]
OpsDelitem ==
    \E key \in Keys :
        LET r == Composition_delitem(a, key)
        IN /\ a' = r.self
           /\ ret' = Returned("delitem", key, r)
           /\ UNCHANGED <<ingested, IdleOps>>

\* a[item]
OpsGetitem ==
    \E item \in Keys :
        LET r == Composition_getitem(a, item)
        IN /\ a' = r.self
           /\ ret' = Returned("Composition_getitem", item, r)
           /\ UNCHANGED <<ingested, IdleOps>>

\* a.keys()
OpsKeys ==
    LET r == Composition_keys(a)
    IN /\ a' = r.self
       /\ ret' = Returned("Composition_keys", None, r)
       /\ UNCHANGED <<ingested, IdleOps>>

\* iter(a)
OpsIter ==
    LET r == Composition_iter(a)
    IN /\ a' = r.self
       /\ ret' = Returned("Composition_iter", None, r)
       /\ UNCHANGED <<ingested, IdleOps>>

\* len(a)
OpsLen ==
    LET r == Composition_len(a)
    IN /\ a' = r.self
       /\ ret' = Returned("Composition_len", None, r)
       /\ UNCHANGED <<ingested, IdleOps>>

\* model files for a: the header alone, and the header with one line for a
\* k-mer of a's width
ModelFiles == {Header} \cup {Header \o <<KmerLine(m)>> : m \in StrOfLen(a.k)}

\* a.read(f) for a model file f
OpsRead ==
    \E lines \in ModelFiles :
        LET r == read(a, lines)
        IN /\ a' = r.self
           /\ ret' = Returned("read", Len(lines), r)
           /\ UNCHANGED <<ingested, IdleOps>>

NextOps ==
    \/ OpsProcess
    \/ OpsSetitem
    \/ OpsDelitem
    \/ OpsGetitem
    \/ OpsKeys
    \/ OpsIter
    \/ OpsLen
    \/ OpsRead

SpecOps == InitOps /\ [][NextOps]_vars

\* C11: compo[key] = value and del compo[key] always fail with
\* NotImplementedError and leave k, kmer_count, sequence_count,
\* abs_distribution and both views as they were; and abs_distribution
\* changes only in a call that ingests.
NoManualMutation ==
    [][/\ ret'.op \in {"setitem", "delitem"} =>
             (ret'.exc = "NotImplementedError" /\ a' = a)
       /\ a'.abs_distribution # a.abs_distribution => ret'.op = "process"]_vars

\* a rejected a[key] = value on a model with two k-mers, one view rebuilt and
\* the other stale
NoManualMutation_witness ==
    /\ ret.op = "setitem"
    /\ ret.exc = "NotImplementedError"
    /\ Cardinality(DOMAIN a.abs_distribution) = 2
    /\ a.log_distribution.values_fresh
    /\ ~a.relative_distribution.values_fresh
    /\ ret.arg[1] \notin DOMAIN a.abs_distribution

-----------------------------------------------------------------------------
(* SpecIngest: two Compositions a and b constructed alike and fed the same *)
(* SeqRecords, by the same calls or by calls that should come to the same. *)
(* ingested counts the SeqRecords fed after the construction, and the      *)
(* characters of all of them.  ret.arg is [type, len, sequences]: the type *)
(* of the argument, its length, and whether it is a SeqRecord or a list or *)
(* tuple of nothing but SeqRecords.                                        *)

IdleIngest == <<source, ld, fh>>

Tuple(items) == [type |-> "tuple", items |-> items]

\* whether item is a SeqRecord or a list or tuple of SeqRecords
OnlySequences(item) ==
    \/ item.type = "SeqRecord"
    \/ /\ item.type \in {"list", "tuple"}
       /\ \A i \in DOMAIN item.items : item.items[i].type = "SeqRecord"

\* what ret keeps of an argument: its type, the number of its elements when
\* it is a list or tuple (0 otherwise), and whether it holds only sequences
ShapeOf(item) ==
    [type |-> item.type,
     len |-> IF item.type \in {"list", "tuple"} THEN Len(item.items) ELSE 0,
     sequences |-> OnlySequences(item)]

\* the lists of SeqRecords, for every number of characters and of elements
SeqRecordListsTable ==
    [chars \in 0..MaxTotal |-> [n \in 0..MaxSeqCount |->
        {items \in ItemListsTable[chars][n] :
            \A i \in DOMAIN items : items[i].type = "SeqRecord"}]]

\* the lists and tuples of SeqRecords process() may be called with: every
\* list, and the tuples of at most two elements
Collections ==
    {List(items) : items \in SeqRecordListsTable[CharsLeft][CountLeft]}
    \cup {Tuple(items) : items \in SeqRecordListsTable[CharsLeft][Min(CountLeft, 2)]}

\* lists and tuples with an element that is no SeqRecord: after SeqRecords,
\* and before one
BadCollections ==
    {List(Append(items, NotASequence)) :
        items \in SeqRecordListsTable[CharsLeft][Min(CountLeft, 1)]}
    \cup {List(<<NotASequence, SeqRecord(<<>>)>>), Tuple(<<NotASequence>>)}

\* the strs of the SeqRecords a call on item ingests
IngestedOf(item) ==
    IF item.type = "tuple" THEN IngestedPrefix(item.items, 1) ELSE IngestedBy(item)

\* x.process(items[i]) for i = 1, 2, ..: one call for each element, up to the
\* first call that raises
RECURSIVE each_in_turn(_, _, _)
each_in_turn(self, items, i) ==
    IF i > Len(items) THEN Call(self, None, None)
    ELSE LET r == process(self, items[i])
         IN IF r.exc # None THEN r ELSE each_in_turn(r.self, items, i + 1)

InitIngest ==
    /\ source = <<>>
    /\ ld = NoneObj
    /\ fh = <<>>
    /\ \E k \in 1..MaxK : \E seq \in {NoneObj} \cup {SeqRecord(s) : s \in StrUpTo(1)} :
          LET r == Composition_init(k, seq, NoneObj)
          IN /\ a = r.self
             /\ b = r.self
             /\ ingested = [Record(NothingIngested(k), IngestedBy(seq), k)
                               EXCEPT !.count = 0]
             /\ ret = Returned("Composition", ShapeOf(seq), r)

\* a.process(item); b.process(item), for an object that is no sequence, a
\* SeqRecord, or a list or tuple with an element that is no SeqRecord
IngestProcess ==
    \E item \in {NoneObj, NotASequence}
                \cup (IF CountLeft > 0
                      THEN {SeqRecord(s) : s \in StrUpTo(CharsLeft)}
                      ELSE {})
                \cup BadCollections :
        LET r == process(a, item)
        IN /\ a' = r.self
           /\ b' = process(b, item).self
           /\ ingested' = Record(ingested, IngestedOf(item), a.k)
           /\ ret' = Returned("process", ShapeOf(item), r)
           /\ UNCHANGED IdleIngest

\* a.process_single_sequence(sequence); b.process_single_sequence(sequence)
IngestSingle ==
    \E sequence \in {NoneObj, NotASequence}
                    \cup (IF CountLeft > 0
                          THEN {SeqRecord(s) : s \in StrUpTo(Min(CharsLeft, 1))}
                          ELSE {}) :
        LET r == process_single_sequence(a, sequence)
        IN /\ a' = r.self
           /\ b' = process_single_sequence(b, sequence).self
           /\ ingested' = Record(ingested, IngestedOf(sequence), a.k)
           /\ ret' = Returned("process_single_sequence", ShapeOf(sequence), r)
           /\ UNCHANGED IdleIngest

\* a.process(c) for a list or tuple c of SeqRecords;
\* for x in c: b.process(x)
IngestCollection ==
    \E c \in Collections :
        LET r == process(a, c)
        IN /\ a' = r.self
           /\ b' = each_in_turn(b, c.items, 1).self
           /\ ingested' = Record(ingested, IngestedOf(c), a.k)
           /\ ret' = Returned("process_collection", ShapeOf(c), r)
           /\ UNCHANGED IdleIngest

\* a.process(s1); a.process(s2); b.process(s2); b.process(s1)
IngestTwoOrders ==
    /\ CountLeft >= 2
    /\ \E s1 \in StrUpTo(CharsLeft) : \E s2 \in StrUpTo(CharsLeft - Len(s1)) :
          /\ a' = process(process(a, SeqRecord(s1)).self, SeqRecord(s2)).self
          /\ b' = process(process(b, SeqRecord(s2)).self, SeqRecord(s1)).self
          /\ ingested' = Record(ingested, <<s1, s2>>, a.k)
          /\ ret' = [op |-> "process_two_orders",
                     arg |-> [type |-> "SeqRecord", len |-> 0, sequences |-> TRUE],
                     val |-> None, exc |-> None]
    /\ UNCHANGED IdleIngest

\* x.log_distribution.values(); x.relative_distribution.values()
values_of_both(x) ==
    view_values(view_values(x, "log_distribution").self, "relative_distribution")

\* the values of both views of a and of b are read
IngestRead ==
    /\ a' = values_of_both(a).self
    /\ b' = values_of_both(b).self
    /\ ret' = [op |-> "values",
               arg |-> [type |-> "NoneType", len |-> 0, sequences |-> TRUE],
               val |-> None, exc |-> None]
    /\ UNCHANGED <<ingested, IdleIngest>>

NextIngest ==
    \/ IngestProcess
    \/ IngestSingle
    \/ IngestCollection
    \/ IngestTwoOrders
    \/ IngestRead

SpecIngest == InitIngest /\ [][NextIngest]_vars

\* whether the last call was an ingesting call
IsIngest == ret.op \in {"process", "process_single_sequence", "process_collection"}

\* C12: an ingesting call whose argument is not a sequence (an object that
\* is no SeqRecord given to process or to process_single_sequence, a list or
\* tuple with such an element given to process) fails with ValueError.
IngestRejectsNonSequences ==
    (IsIngest /\ ~ret.arg.sequences) => ret.exc = "ValueError"

-----------------------------------------------------------------------------
(* SpecRead: a Composition constructed from nothing reads a model file.    *)
(* The streams are in the format write() produces, line by line: a Pseudo  *)
(* line with a float, an SCount line with an int, k-mer lines with a       *)
(* float; they hold these lines in any number and order.  ret.arg is the   *)
(* stream read.                                                            *)

\* the largest number of lines of a stream
MaxLines == 3

IdleRead == <<source, ld, b, fh, ingested>>

\* a k-mer of n characters
KmerOfLen(n) == [i \in 1..n |-> "A"]

\* the lines of a stream: the two header lines, and a k-mer line for each
\* key length up to one more than the largest k
StreamLines ==
    {<<Pseudo, format_float(SamplePseudo)>>}
    \cup {<<SCount, format_int(n)>> : n \in 1..2}
    \cup {KmerLine(KmerOfLen(n)) : n \in 1..(MaxK + 1)}

Streams == UNION {[1..n -> StreamLines] : n \in 0..MaxLines}

InitRead ==
    /\ source = <<>>
    /\ ld = NoneObj
    /\ b = NoneObj
    /\ fh = NoneObj
    /\ ingested = <<>>
    /\ \E k \in 1..MaxK : a = Composition_init(k, NoneObj, NoneObj).self
    /\ ret = [op |-> "Composition", arg |-> <<>>, val |-> None, exc |-> None]

\* a.read(fh) for a stream fh, on a Composition that has read none
ReadStream ==
    /\ ret.op = "Composition"
    /\ \E lines \in Streams :
          LET r == read(a, lines)
          IN /\ a' = r.self
             /\ ret' = Returned("read", lines, r)
    /\ UNCHANGED IdleRead

\* a = Composition(k): a new object
ReadNew ==
    /\ \E k \in 1..MaxK :
          LET r == Composition_init(k, NoneObj, NoneObj)
          IN /\ a' = r.self
             /\ ret' = Returned("Composition", <<>>, r)
    /\ UNCHANGED IdleRead

NextRead ==
    \/ ReadStream
    \/ ReadNew

SpecRead == InitRead /\ [][NextRead]_vars

\* the positions of the k-mer lines of a stream: the lines whose key is
\* neither 'Pseudo' nor 'SCount'
KmerLinesOf(lines) == {i \in DOMAIN lines : lines[i][1] \notin {Pseudo, SCount}}

\* whether the first k-mer line of the stream has a key of another length
\* than k
FirstKmerMismatch(lines, k) ==
    \E i \in KmerLinesOf(lines) :
        /\ \A j \in KmerLinesOf(lines) : i <= j
        /\ Len(lines[i][1]) # k

\* C13: read fails with ValueError if and only if the key of the first k-mer
\* line of the stream (the first line whose key is neither 'Pseudo' nor
\* 'SCount') has a length other than k; the keys of later k-mer lines are
\* not checked.
ReadChecksFirstKmerOnly ==
    ret.op = "read" =>
        /\ ret.exc \in {None, "ValueError"}
        /\ ret.exc = "ValueError" <=> FirstKmerMismatch(ret.arg, a.k)

\* a stream read to its end whose second k-mer line, after an SCount line,
\* has a key of another length than k
ReadChecksFirstKmerOnly_witness ==
    /\ ret.op = "read"
    /\ ret.exc = None
    /\ Len(ret.arg) = 3
    /\ ret.arg[2][1] = SCount
    /\ Len(ret.arg[1][1]) = a.k
    /\ Len(ret.arg[3][1]) \notin {a.k, Len(SCount)}

-----------------------------------------------------------------------------
(* Composition.prob.  The value returned is the float 0 + pr + pr + ..,    *)
(* one pr for each pass of the loop: the record [sum |-> terms], terms the *)
(* sequence of the floats added, in the order they are added.              *)

\* the float math.log10(1/t) of pseudocount: the log of the quotient, which
\* need not be the float math.log10(1) - math.log10(t)
log10_quotient(n, t) == [log10_of |-> Frac(n, t)]

\* range(len(s) - self.k + 1), the bound of process_single_sequence
prob_range_stop_with_last(self, s) == Len(s) - self.k + 1

\* range(len(s) - self.k) of prob, as the index one past its last element
prob_range_stop(self, s) == Len(s) - self.k

\* one pass of the loop of prob, lines 209-212, on a Composition whose
\* log_distribution values are fresh
prob_term(self, kmer) ==
    LET g == view_getitem(self, "log_distribution", kmer)
    IN IF g.exc = "KeyError" THEN log10_quotient(1, self.kmer_count) ELSE g.val

\* Composition.prob(sequence).  The first pass of the loop reads
\* log_distribution and so rebuilds it when it is stale; the later passes
\* find it fresh.
prob(self, sequence) ==
    IF self.kmer_count = 0 THEN Call(self, None, "ZeroDivisionError")
    ELSE IF sequence.type # "SeqRecord" THEN Call(self, None, "AttributeError")
    ELSE LET n == prob_range_stop(self, sequence.seq)
         IN IF n <= 0 THEN Call(self, [sum |-> <<>>], None)
            ELSE LET r == view_keys(self, "log_distribution")
                 IN IF r.exc \notin {None, "KeyError"} THEN Call(r.self, None, r.exc)
                    ELSE Call(r.self,
                              [sum |-> [j \in 1..n |->
                                  prob_term(r.self, Slice(sequence.seq, j - 1, self.k))]],
                              None)

-----------------------------------------------------------------------------
(* SpecProb: a Composition constructed from one SeqRecord or from nothing, *)
(* fed further SeqRecords, and asked for the probability of sequences.     *)
(* ret.arg of a prob call is the str of the sequence.                      *)

IdleProb == <<source, ld, b, fh>>

InitProb ==
    /\ source = <<>>
    /\ ld = NoneObj
    /\ b = NoneObj
    /\ fh = <<>>
    /\ \E k \in 1..MaxK : \E seq \in Seqs :
          LET r == Composition_init(k, seq, NoneObj)
          IN /\ a = r.self
             /\ ingested = Record(NothingIngested(k), IngestedBy(seq), k)
             /\ ret = Returned("Composition", <<>>, r)

\* a.process(item) for a SeqRecord
ProbProcess ==
    /\ CountLeft > 0
    /\ \E s \in StrUpTo(CharsLeft) :
          LET r == process(a, SeqRecord(s))
          IN /\ a' = r.self
             /\ ingested' = Record(ingested, <<s>>, a.k)
             /\ ret' = Returned("process", <<>>, r)
    /\ UNCHANGED IdleProb

\* a.prob(sequence) for a SeqRecord
Prob ==
    /\ \E s \in StrUpTo(MaxTotal) :
          LET r == prob(a, SeqRecord(s))
          IN /\ a' = r.self
             /\ ret' = Returned("prob", s, r)
    /\ UNCHANGED <<ingested, IdleProb>>

\* a.prob(sequence) for an object that is no SeqRecord
ProbOfObject ==
    /\ LET r == prob(a, NotASequence)
       IN /\ a' = r.self
          /\ ret' = Returned("prob_of_object", NotASequence.seq, r)
    /\ UNCHANGED <<ingested, IdleProb>>

NextProb ==
    \/ ProbProcess
    \/ Prob
    \/ ProbOfObject

SpecProb == InitProb /\ [][NextProb]_vars

\* the term prob adds for the k-mer m: its log-probability when it was
\* ingested, and the pseudocount log10(1/kmer_count) when it was not
TermOf(m) ==
    IF ingested.windows[m] > 0
    THEN log10_difference(ingested.windows[m], TotalWindows)
    ELSE log10_quotient(1, TotalWindows)

\* C14: prob on a sequence of length L, on a model that has ingested a
\* k-mer, returns without an exception the sum of one term for each window
\* start 0..L-k-1 (no term when L <= k, none for the window at L-k): the
\* log-probability of the k-mer at that position when the k-mer is in the
\* model, the pseudocount when it is not.
ProbSumsAllButLastWindow ==
    (ret.op = "prob" /\ TotalWindows >= 1) =>
        /\ ret.exc = None
        /\ Len(ret.val.sum) = (IF Len(ret.arg) > a.k THEN Len(ret.arg) - a.k ELSE 0)
        /\ \A j \in 0..(Len(ret.arg) - a.k - 1) :
              ret.val.sum[j + 1] = TermOf(SubSeq(ret.arg, j + 1, j + a.k))

\* a sum of two terms (k = 1, three characters), the first for a k-mer of
\* the model and the second a pseudocount, on a model of two sequences
ProbSumsAllButLastWindow_witness ==
    /\ ret.op = "prob"
    /\ ret.exc = None
    /\ ingested.count = 2
    /\ Len(ret.arg) = 3
    /\ Len(ret.val.sum) = 2
    /\ ret.val.sum[1] = log10_difference(1, 1)
    /\ ret.val.sum[2] = log10_quotient(1, 2)

\* C16: ingesting a list or tuple of n SeqRecords in one call leaves the
\* Composition as ingesting the n SeqRecords one call each, in that order,
\* leaves an equal Composition: the same abs_distribution, kmer_count and
\* sequence_count, and both views stale (for n >= 1; n = 0 leaves the flags
\* as they were); and sequence_count grows by exactly n.
CollectionIsOneAtATime ==
    [][(a = b /\ ret'.op = "process_collection") =>
          /\ ret'.exc = None
          /\ a'.abs_distribution = b'.abs_distribution
          /\ a'.kmer_count = b'.kmer_count
          /\ a'.sequence_count = b'.sequence_count
          /\ a'.sequence_count = a.sequence_count + ret'.arg.len
          /\ \A view \in Views :
                /\ a'[view] = b'[view]
                /\ ret'.arg.len >= 1 => ~a'[view].values_fresh]_vars

\* a tuple of two SeqRecords, one of them empty, went into a model whose
\* views had been read
CollectionIsOneAtATime_witness ==
    /\ ret.op = "process_collection"
    /\ ret.arg.type = "tuple"
    /\ ret.arg.len = 2
    /\ a.k = 1
    /\ a.kmer_count = 2
    /\ a.sequence_count = 3
    /\ a.log_distribution.dict # EmptyDict
    /\ ~a.log_distribution.values_fresh

\* C20: for any two SeqRecords s1 and s2 and any starting model, ingesting
\* s1 then s2 and ingesting s2 then s1 give the same abs_distribution,
\* kmer_count and sequence_count, and views whose values, once read, are the
\* same.
IngestionOrderIndependent ==
    ret.op = "process_two_orders" =>
        /\ a.abs_distribution = b.abs_distribution
        /\ a.kmer_count = b.kmer_count
        /\ a.sequence_count = b.sequence_count
        /\ \A view \in Views :
              /\ view_values(a, view).exc = None
              /\ view_values(a, view).val = view_values(b, view).val

\* two SeqRecords that bring a second k-mer went into a model of one k-mer
IngestionOrderIndependent_witness ==
    /\ ret.op = "process_two_orders"
    /\ a.k = 1
    /\ a.sequence_count = 3
    /\ a.kmer_count = 3
    /\ Cardinality(DOMAIN a.abs_distribution) = 2

-----------------------------------------------------------------------------
(* SpecEq: two Compositions of one k, a constructed from nothing and fed   *)
(* SeqRecords, b constructed from one SeqRecord; a view of one is compared *)
(* with the same view of the other, with a dict or with another object.    *)
(* ld names the view the comparisons are made on.  ret.arg is              *)
(* [left, other, dict, self_stale, other_stale]: the Composition of the    *)
(* left operand ("a" or "b"), the type of the right operand, which dict it *)
(* is when it is one, and whether the call found the left and the right    *)
(* operand stale.                                                          *)

\* a_.<va> == b_.<vb>, a view compared with a view of another Composition:
\* self is rebuilt when stale, then other.keys() rebuilds other when stale,
\* and the keys and values of the two caches are compared.  self of the
\* result is <<a_, b_>> after the call.
view_eq_view(a_, va, b_, vb) ==
    LET ra == refresh(a_[va], a_)
    IN IF ra.exc # None THEN Call(<<a_, b_>>, None, ra.exc)
       ELSE LET ro == view_keys(b_, vb)
                r == view_eq(a_, va, [type |-> "LazyDict", dict |-> ro.self[vb].dict])
            IN IF ro.exc # None
               THEN Call(<<[a_ EXCEPT ![va] = ra.self], ro.self>>, None, ro.exc)
               ELSE Call(<<r.self, ro.self>>, r.val, r.exc)

IdleEq == <<source, ld, fh, ingested>>

\* what the rebuilt view of x holds
ViewOf(x, view) ==
    [m \in DOMAIN x.abs_distribution |-> recompute(x[view], x, m)]

\* the dicts a view is compared with: what the view of a should hold, what
\* the view of b should hold, and {}
DictNamed(name, view) ==
    CASE name = "of_a" -> ViewOf(a, view)
      [] name = "of_b" -> ViewOf(b, view)
      [] name = "empty" -> EmptyDict

InitEq ==
    /\ source = <<>>
    /\ ld \in Views
    /\ fh = NoneObj
    /\ ingested = <<>>
    /\ \E k \in 1..MaxK :
          /\ a = Composition_init(k, NoneObj, NoneObj).self
          /\ \E s \in StrUpTo(MaxK) : b = Composition_init(k, SeqRecord(s), NoneObj).self
    /\ ret = [op |-> "Composition", arg |-> None, val |-> None, exc |-> None]

\* a.process(item) for a SeqRecord
EqProcess ==
    /\ a.sequence_count < MaxSeqCount
    /\ \E s \in StrUpTo(MaxTotal - a.kmer_count - a.sequence_count) :
          a' = process(a, SeqRecord(s)).self
    /\ ret' = [op |-> "process", arg |-> None, val |-> None, exc |-> None]
    /\ UNCHANGED <<b, IdleEq>>

\* a.<view> == b.<view>
EqView ==
    /\ LET r == view_eq_view(a, ld, b, ld)
       IN /\ a' = r.self[1]
          /\ b' = r.self[2]
          /\ ret' = Returned("eq",
                             [left |-> "a", other |-> "LazyDict", dict |-> None,
                              self_stale |-> ~a[ld].values_fresh,
                              other_stale |-> ~b[ld].values_fresh],
                             r)
    /\ UNCHANGED IdleEq

\* b.<view> == a.<view>
EqViewReversed ==
    /\ LET r == view_eq_view(b, ld, a, ld)
       IN /\ b' = r.self[1]
          /\ a' = r.self[2]
          /\ ret' = Returned("eq",
                             [left |-> "b", other |-> "LazyDict", dict |-> None,
                              self_stale |-> ~b[ld].values_fresh,
                              other_stale |-> ~a[ld].values_fresh],
                             r)
    /\ UNCHANGED IdleEq

\* a.<view> == d for a dict d
EqDict ==
    /\ \E name \in {"of_a", "of_b", "empty"} :
          LET r == view_eq(a, ld, [type |-> "dict", dict |-> DictNamed(name, ld)])
          IN /\ a' = r.self
             /\ ret' = Returned("eq",
                                [left |-> "a", other |-> "dict", dict |-> name,
                                 self_stale |-> ~a[ld].values_fresh,
                                 other_stale |-> FALSE],
                                r)
    /\ UNCHANGED <<b, IdleEq>>

\* a.<view> == other for an object that is neither a dict nor a LazyDict
EqObject ==
    /\ \E other \in {NoneObj, NotASequence} :
          LET r == view_eq(a, ld, other)
          IN /\ a' = r.self
             /\ ret' = Returned("eq",
                                [left |-> "a", other |-> other.type, dict |-> None,
                                 self_stale |-> ~a[ld].values_fresh,
                                 other_stale |-> FALSE],
                                r)
    /\ UNCHANGED <<b, IdleEq>>

NextEq ==
    \/ EqProcess
    \/ EqView
    \/ EqViewReversed
    \/ EqDict
    \/ EqObject

SpecEq == InitEq /\ [][NextEq]_vars

\* the operands of the last ==: self and, when it is a view, other
LeftOf(r) == IF r.arg.left = "a" THEN a ELSE b
RightOf(r) == IF r.arg.left = "a" THEN b ELSE a

\* C17: == on a view rebuilds the view when it is stale; it fails with
\* ValueError when the other operand is neither a dict nor a LazyDict;
\* otherwise it returns True exactly when the two have the same keys and an
\* equal value for every key; and another view that is stale is rebuilt
\* before its keys and values are compared.
EqComparesRebuiltViews ==
    ret.op = "eq" =>
        /\ LeftOf(ret)[ld].values_fresh
        /\ LeftOf(ret)[ld].dict = ViewOf(LeftOf(ret), ld)
        /\ ret.arg.other \notin {"dict", "LazyDict"} => ret.exc = "ValueError"
        /\ ret.arg.other = "dict" =>
              /\ ret.exc = None
              /\ ret.val = (ViewOf(LeftOf(ret), ld) = DictNamed(ret.arg.dict, ld))
        /\ ret.arg.other = "LazyDict" =>
              /\ ret.exc = None
              /\ RightOf(ret)[ld].values_fresh
              /\ RightOf(ret)[ld].dict = ViewOf(RightOf(ret), ld)
              /\ ret.val = (ViewOf(a, ld) = ViewOf(b, ld))

\* a view compared equal with a stale view that had been read before, of a
\* model with other counts and the same relative frequencies
EqComparesRebuiltViews_witness ==
    /\ ret.op = "eq"
    /\ ret.exc = None
    /\ ret.arg.left = "b"
    /\ ret.arg.other = "LazyDict"
    /\ ret.arg.other_stale
    /\ ~ret.arg.self_stale
    /\ ret.val = TRUE
    /\ a.kmer_count = 2
    /\ b.kmer_count = 1
    /\ a.sequence_count = 2

=============================================================================
